---- MODULE Spec2Model ----
(***************************************************************************)
(* A model of the lokallm training pipeline: the dataset collector         *)
(* (data/generate.py), the adapter trainer (train/lora.py) and the         *)
(* artifact exporter (export/gguf.py).  Each stage is a separate process   *)
(* with its own specification; the stages share nothing but files.         *)
(***************************************************************************)
EXTENDS Integers, Sequences, FiniteSets, TLC

VARIABLES
    \* ---- collector: generate.py main() ----
    c_pc,          \* position of main(): "start", "loop", "waiting", "writing", "done",
                   \* "crashed", "killed"
    samples,       \* args.samples
    seed_prompts,  \* the prompt list built from the five seeds
    idx,           \* number of prompts the for loop has consumed
    results,       \* the results list
    calls,         \* requests the routing service has received, with their outcome
    svc,           \* the outcomes the routing service of this run may give
    outfile,       \* the file at args.output: [exists, lines]
    outfile0,      \* the file at args.output when the run started
    widx,          \* number of records written so far
    inflight,      \* the prompts posted to the routing service and not answered yet
    c_opens,       \* how many times main() has opened args.output for writing
    \* ---- generate_sample on its own ----
    gs_pc,         \* "call" or "returned"
    gs_prompt,     \* the prompt argument
    gs_outcome,    \* what the routing service does with the request
    gs_ret,        \* the return value: <<>> for None, <<record>> otherwise
    \* ---- trainer: lora.py main() ----
    t_pc,          \* position of main()
    t_dataset,     \* number of records in the file at args.dataset
    t_epochs,      \* args.epochs
    t_batch,       \* args.batch_size
    t_step,        \* optimizer steps the training loop has done
    t_log,         \* the library calls main() has made so far, in order
    t_outdir,      \* what args.output_dir holds
    \* ---- exporter: gguf.py main() ----
    e_pc,          \* position of main()
    e_adapter,     \* args.adapter
    e_base_model,  \* args.base_model
    e_output,      \* args.output
    fs_dirs,       \* the directories that exist
    fs_files,      \* the content of every file path, Absent when there is no file
    fs_dirs0,      \* fs_dirs when the run started
    fs_files0,     \* fs_files when the run started
    e_stdout,      \* what the exporter has printed to the standard stream
    e_runs,        \* how many times the exporter has been started with these arguments
    fs_first       \* <<fs_dirs, fs_files>> as the first run left them

collector_vars == <<c_pc, samples, seed_prompts, idx, results, calls, svc, outfile, outfile0, widx,
                   inflight, c_opens>>
sample_vars == <<gs_pc, gs_prompt, gs_outcome, gs_ret>>
trainer_vars == <<t_pc, t_dataset, t_epochs, t_batch, t_step, t_log, t_outdir>>
exporter_vars == <<e_pc, e_adapter, e_base_model, e_output, fs_dirs, fs_files, fs_dirs0, fs_files0, e_stdout,
                  e_runs, fs_first>>
vars == <<collector_vars, sample_vars, trainer_vars, exporter_vars>>

----------------------------------------------------------------------------
(* Bounds *)
MaxSamples == 10
MaxEpochs == 2
MaxBatch == 2
LargeDataset == 800
MaxRuns == 2

----------------------------------------------------------------------------
(* Python strings are sequences of chunks (a chunk stands for a run of      *)
(* characters); JSON text is a string whose chunks are the JSON tokens.     *)

Q == "\""            \* a double quote
BQ == "\\\""         \* an escaped double quote
B == "\\"            \* a backslash
BB == "\\\\"         \* an escaped backslash
COLON == ": "        \* json.dumps item separator parts
COMMA == ", "

Str(c) == <<c>>      \* the Python string made of the one chunk c
EmptyStr == <<>>     \* ""

(* JSON values as Python holds them after req.json(): None, a float, nan, a str *)
JNull == [t |-> "null", n |-> 0, s |-> EmptyStr]
JNaN == [t |-> "nan", n |-> 0, s |-> EmptyStr]
JNum(n) == [t |-> "num", n |-> n, s |-> EmptyStr]     \* n is the number in tenths
JStr(s) == [t |-> "str", n |-> 0, s |-> s]

\* repr of a float, as json.dumps prints it (tenths)
NumText(n) ==
    CASE n = 0 -> "0.0"
      [] n = 1 -> "0.1"
      [] n = 9 -> "0.9"
      [] n = 15 -> "1.5"
      [] n = -2 -> "-0.2"
      [] OTHER -> "1e999"

\* float(text) for the number tokens above
TextNum(c) ==
    CASE c = "0.0" -> 0
      [] c = "0.1" -> 1
      [] c = "0.9" -> 9
      [] c = "1.5" -> 15
      [] c = "-0.2" -> -2
      [] OTHER -> 0

\* json's string escaping: a quote and a backslash get a backslash in front
EscapeChunk(c) == IF c = Q THEN BQ ELSE IF c = B THEN BB ELSE c
UnescapeChunk(c) == IF c = BQ THEN Q ELSE IF c = BB THEN B ELSE c
Escape(s) == [i \in 1..Len(s) |-> EscapeChunk(s[i])]
Unescape(s) == [i \in 1..Len(s) |-> UnescapeChunk(s[i])]

\* json.dumps of one value
Dumps(v) ==
    CASE v.t = "null" -> <<"null">>
      [] v.t = "nan" -> <<"NaN">>
      [] v.t = "num" -> <<NumText(v.n)>>
      [] v.t = "str" -> <<Q>> \o Escape(v.s) \o <<Q>>

\* json.dumps of a dict given as a sequence of <<key, value>> in insertion order
RECURSIVE DumpsMembers(_, _)
DumpsMembers(pairs, i) ==
    IF i > Len(pairs) THEN <<>>
    ELSE (IF i > 1 THEN <<COMMA>> ELSE <<>>)
         \o Dumps(JStr(Str(pairs[i][1]))) \o <<COLON>> \o Dumps(pairs[i][2])
         \o DumpsMembers(pairs, i + 1)

DumpsDict(pairs) == <<"{">> \o DumpsMembers(pairs, 1) \o <<"}">>

\* json.loads: the index of the quote closing the string opened before i
RECURSIVE StrEnd(_, _)
StrEnd(text, i) ==
    IF i > Len(text) THEN i
    ELSE IF text[i] = Q THEN i
    ELSE StrEnd(text, i + 1)

\* json.loads of the value starting at text[i]: [v, next]
ParseValueAt(text, i) ==
    IF text[i] = Q
    THEN LET j == StrEnd(text, i + 1)
         IN [v |-> JStr(Unescape(SubSeq(text, i + 1, j - 1))), next |-> j + 1]
    ELSE IF text[i] = "null" THEN [v |-> JNull, next |-> i + 1]
    ELSE IF text[i] = "NaN" THEN [v |-> JNaN, next |-> i + 1]
    ELSE [v |-> JNum(TextNum(text[i])), next |-> i + 1]

\* json.loads of the members of an object from text[i] on: a function key -> value
RECURSIVE ParseMembers(_, _, _)
ParseMembers(text, i, acc) ==
    IF i > Len(text) \/ text[i] = "}" THEN acc
    ELSE IF text[i] = COMMA THEN ParseMembers(text, i + 1, acc)
    ELSE LET k == ParseValueAt(text, i)
             v == ParseValueAt(text, k.next + 1)
         IN ParseMembers(text, v.next, (k.v.s[1] :> v.v) @@ acc)

Loads(text) == ParseMembers(text, 2, <<>>)

----------------------------------------------------------------------------
(* The routing service, as generate_sample sees it *)

Keys == {"complexityScore", "routingTier", "reasoning"}

\* a slip: `data.get(key) or default`, which also replaces None
GetOrDefault(data, key, default) ==
    IF key \in DOMAIN data /\ data[key] # JNull THEN data[key] ELSE default

\* dict.get(key, default): the default only when the key is absent
Get(data, key, default) == IF key \in DOMAIN data THEN data[key] ELSE default

ScoreValues == {JNum(1), JNum(9), JNum(15), JNum(-2), JNull, JNaN, JStr(Str("high"))}
TierValues == {JStr(Str("local")), JStr(Str("cloud")), JNull}
ReasoningValues == {JStr(Str("trivial greeting")), JStr(EmptyStr), JNull}

FieldValues(k) ==
    CASE k = "complexityScore" -> ScoreValues
      [] k = "routingTier" -> TierValues
      [] k = "reasoning" -> ReasoningValues

\* every JSON object the service may answer with: any subset of the keys present
AllData == UNION {{d \in [K -> ScoreValues \cup TierValues \cup ReasoningValues] :
                      \A k \in K : d[k] \in FieldValues(k)} : K \in SUBSET Keys}

EmptyData == <<>>
FullData == [k \in Keys |-> CASE k = "complexityScore" -> JNum(1)
                              [] k = "routingTier" -> JStr(Str("local"))
                              [] k = "reasoning" -> JStr(Str("trivial greeting"))]
NullScoreData == [FullData EXCEPT !["complexityScore"] = JNull]

\* what one requests.post can end in
Timeout == [kind |-> "timeout", status |-> 0, body |-> "none", data |-> EmptyData]
ConnectionError == [kind |-> "connection_error", status |-> 0, body |-> "none", data |-> EmptyData]
Response(status, body, data) == [kind |-> "response", status |-> status, body |-> body, data |-> data]

Statuses == {200, 300, 404, 500}

SampleOutcomes ==
    {Timeout, ConnectionError}
    \cup {Response(st, b, EmptyData) : st \in Statuses, b \in {"not_json", "not_object"}}
    \cup {Response(st, "object", d) : st \in Statuses, d \in AllData}

\* the outcomes the collection loop is run against
LoopOutcomes ==
    {Timeout, Response(500, "not_json", EmptyData), Response(200, "not_json", EmptyData),
     Response(300, "object", EmptyData), Response(200, "object", FullData),
     Response(200, "object", NullScoreData)}

\* one run's service answers in two ways at most
ServiceProfiles == {S \in SUBSET LoopOutcomes : Cardinality(S) = 2}

\* Response.raise_for_status raises HTTPError for 4xx and 5xx only
RaisesForStatus(status) == 400 <= status /\ status < 600

None == <<>>

\* a slip: the target's score is given the tier instead of the score
generate_sample_tier_in_target(prompt, o) ==
    IF o.kind # "response" THEN None
    ELSE IF RaisesForStatus(o.status) THEN None
    ELSE IF o.body # "object" THEN None
    ELSE <<[instruction |-> prompt,
            complexity_score |-> Get(o.data, "complexityScore", JNum(0)),
            tier |-> Get(o.data, "routingTier", JStr(Str("local"))),
            target |-> DumpsDict(<<
                <<"score", Get(o.data, "routingTier", JStr(Str("local")))>>,
                <<"reasoning", Get(o.data, "reasoning", JStr(Str("Unknown")))>> >>)]>>

\* generate_sample(prompt): None after any exception, otherwise the record
generate_sample(prompt, o) ==
    IF o.kind # "response" THEN None                 \* requests.post raised
    ELSE IF RaisesForStatus(o.status) THEN None      \* raise_for_status raised
    ELSE IF o.body # "object" THEN None              \* req.json() or data.get raised
    ELSE <<[instruction |-> prompt,
            complexity_score |-> Get(o.data, "complexityScore", JNum(0)),
            tier |-> Get(o.data, "routingTier", JStr(Str("local"))),
            target |-> DumpsDict(<<
                <<"score", Get(o.data, "complexityScore", JNum(0))>>,
                <<"reasoning", Get(o.data, "reasoning", JStr(Str("Unknown")))>> >>)]>>

\* json.dumps(r) for a record of results
DumpsRecord(r) ==
    DumpsDict(<< <<"instruction", JStr(r.instruction)>>,
                 <<"complexity_score", r.complexity_score>>,
                 <<"tier", r.tier>>,
                 <<"target", JStr(r.target)>> >>)

----------------------------------------------------------------------------
(* The collector: main() of generate.py *)

SeedPrompts == <<Str("What is the capital of France?"),
                 Str("Write a python script to parse Apache log files and group by status code."),
                 Str("Can you explain the mathematical foundation of continuous diffusion models?"),
                 Str("Hello!"),
                 Str("Could you review this React code for performance bottlenecks? [code...]")>>

\* list * n: n copies in a row, none when n <= 0
RECURSIVE Repeat(_, _)
Repeat(list, n) == IF n <= 0 THEN <<>> ELSE list \o Repeat(list, n - 1)

NoFile == [exists |-> FALSE, lines |-> <<>>]
OldFile == [exists |-> TRUE, lines |-> <<Str("old")>>]

CollectorIdle ==
    /\ c_pc = "idle" /\ samples = 0 /\ seed_prompts = <<>> /\ idx = 0
    /\ results = <<>> /\ calls = <<>> /\ svc = {} /\ outfile = NoFile /\ outfile0 = NoFile
    /\ widx = 0 /\ inflight = <<>> /\ c_opens = 0

SampleIdle ==
    /\ gs_pc = "idle" /\ gs_prompt = EmptyStr /\ gs_outcome = Timeout /\ gs_ret = None

\* a slip: the output file is opened before the loop, not after it
BuildPromptsOpensFirst ==
    /\ c_pc = "start"
    /\ seed_prompts' = Repeat(SeedPrompts, samples \div 5)
    /\ outfile' = [exists |-> TRUE, lines |-> <<>>]
    /\ c_opens' = c_opens + 1
    /\ c_pc' = "loop"
    /\ UNCHANGED <<samples, idx, results, calls, svc, outfile0, widx, inflight>>
    /\ UNCHANGED <<sample_vars, trainer_vars, exporter_vars>>

\* seed_prompts = [...] * (args.samples // 5)
BuildPrompts ==
    /\ c_pc = "start"
    /\ seed_prompts' = Repeat(SeedPrompts, samples \div 5)
    /\ c_pc' = "loop"
    /\ UNCHANGED <<samples, idx, results, calls, svc, outfile, outfile0, widx, inflight, c_opens>>
    /\ UNCHANGED <<sample_vars, trainer_vars, exporter_vars>>

\* a slip: a record equal to one already collected is not appended again
AppendResultDedup(rs, res) ==
    IF res # None /\ (\A i \in 1..Len(rs) : rs[i] # res[1]) THEN Append(rs, res[1]) ELSE rs

\* the results list after one loop iteration whose generate_sample returned res
AppendResult(rs, res) == IF res # None THEN Append(rs, res[1]) ELSE rs

\* for prompt in seed_prompts: generate_sample(prompt) posts the request and blocks in
\* requests.post until the answer, the timeout or an error
PostRequest ==
    /\ c_pc = "loop"
    /\ idx < Len(seed_prompts)
    /\ inflight' = Append(inflight, seed_prompts[idx + 1])
    /\ c_pc' = "waiting"
    /\ UNCHANGED <<samples, seed_prompts, idx, results, calls, svc, outfile, outfile0, widx, c_opens>>
    /\ UNCHANGED <<sample_vars, trainer_vars, exporter_vars>>

\* a slip: a prompt whose call failed is posted again
ScorePromptRetries ==
    /\ c_pc = "waiting"
    /\ \E o \in svc :
          LET prompt == seed_prompts[idx + 1]
              res == generate_sample(prompt, o)
          IN /\ calls' = Append(calls, [prompt |-> prompt, outcome |-> o])
             /\ results' = AppendResult(results, res)
             /\ idx' = IF res = None THEN idx ELSE idx + 1
    /\ inflight' = Tail(inflight)
    /\ c_pc' = "loop"
    /\ UNCHANGED <<samples, seed_prompts, svc, outfile, outfile0, widx, c_opens>>
    /\ UNCHANGED <<sample_vars, trainer_vars, exporter_vars>>

\* the rest of the iteration: the call ends in some outcome, res = generate_sample(prompt)
\* is None or the record; if res: results.append(res)
ScorePrompt ==
    /\ c_pc = "waiting"
    /\ \E o \in svc :
          LET prompt == seed_prompts[idx + 1]
              res == generate_sample(prompt, o)
          IN /\ calls' = Append(calls, [prompt |-> prompt, outcome |-> o])
             /\ results' = AppendResult(results, res)
    /\ idx' = idx + 1
    /\ inflight' = Tail(inflight)
    /\ c_pc' = "loop"
    /\ UNCHANGED <<samples, seed_prompts, svc, outfile, outfile0, widx, c_opens>>
    /\ UNCHANGED <<sample_vars, trainer_vars, exporter_vars>>

\* the process is interrupted or killed while the loop runs: KeyboardInterrupt is not an
\* Exception, so generate_sample does not catch it and main() ends there
CollectorKilled ==
    /\ c_pc \in {"loop", "waiting"}
    /\ idx < Len(seed_prompts)
    /\ inflight' = <<>>
    /\ c_pc' = "killed"
    /\ UNCHANGED <<samples, seed_prompts, idx, results, calls, svc, outfile, outfile0, widx, c_opens>>
    /\ UNCHANGED <<sample_vars, trainer_vars, exporter_vars>>

\* with open(args.output, "w") as f: the file is created or truncated
OpenOutput ==
    /\ c_pc = "loop"
    /\ idx = Len(seed_prompts)
    /\ outfile' = [exists |-> TRUE, lines |-> <<>>]
    /\ c_opens' = c_opens + 1
    /\ widx' = 0
    /\ c_pc' = "writing"
    /\ UNCHANGED <<samples, seed_prompts, idx, results, calls, svc, outfile0, inflight>>
    /\ UNCHANGED <<sample_vars, trainer_vars, exporter_vars>>

\* open() raises (the path is not writable): main dies, nothing is written
OpenOutputFails ==
    /\ c_pc = "loop"
    /\ idx = Len(seed_prompts)
    /\ c_pc' = "crashed"
    /\ UNCHANGED <<samples, seed_prompts, idx, results, calls, svc, outfile, outfile0, widx, inflight, c_opens>>
    /\ UNCHANGED <<sample_vars, trainer_vars, exporter_vars>>

\* f.write(json.dumps(r) + "\n") for the next record
WriteRecord ==
    /\ c_pc = "writing"
    /\ widx < Len(results)
    /\ outfile' = [outfile EXCEPT !.lines = Append(@, DumpsRecord(results[widx + 1]))]
    /\ widx' = widx + 1
    /\ UNCHANGED <<c_pc, samples, seed_prompts, idx, results, calls, svc, outfile0, inflight, c_opens>>
    /\ UNCHANGED <<sample_vars, trainer_vars, exporter_vars>>

\* the with block ends and the summary is printed
CollectorFinish ==
    /\ c_pc = "writing"
    /\ widx = Len(results)
    /\ c_pc' = "done"
    /\ UNCHANGED <<samples, seed_prompts, idx, results, calls, svc, outfile, outfile0, widx, inflight, c_opens>>
    /\ UNCHANGED <<sample_vars, trainer_vars, exporter_vars>>

CollectorNext ==
    \/ BuildPrompts
    \/ PostRequest
    \/ ScorePrompt
    \/ CollectorKilled
    \/ OpenOutput
    \/ OpenOutputFails
    \/ WriteRecord
    \/ CollectorFinish

----------------------------------------------------------------------------
(* generate_sample on its own, for every prompt and every service outcome *)

SamplePrompts == {SeedPrompts[i] : i \in 1..Len(SeedPrompts)} \cup {EmptyStr}

GenerateSample ==
    /\ gs_pc = "call"
    /\ gs_ret' = generate_sample(gs_prompt, gs_outcome)
    /\ gs_pc' = "returned"
    /\ UNCHANGED <<gs_prompt, gs_outcome, collector_vars, trainer_vars, exporter_vars>>

SampleNext == GenerateSample

----------------------------------------------------------------------------
(* The trainer: main() of lora.py.  Every library call either returns or    *)
(* raises; an exception is not caught anywhere, so it ends main().          *)

GradAccum == 4       \* gradient_accumulation_steps
SaveSteps == 100     \* save_steps

TrainerIdle ==
    /\ t_pc = "idle" /\ t_dataset = 0 /\ t_epochs = 0 /\ t_batch = 0 /\ t_step = 0
    /\ t_log = <<>> /\ t_outdir = {}

\* the library call main() makes next at each position
NextCall(pc) ==
    CASE pc = "start" -> "load_tokenizer"
      [] pc = "tokenizer_loaded" -> "bnb_config"
      [] pc = "bnb_configured" -> "load_model"
      [] pc = "model_loaded" -> "prepare_kbit"
      [] pc = "kbit_prepared" -> "attach_adapter"
      [] pc = "adapter_attached" -> "print_trainable_parameters"
      [] pc = "params_printed" -> "load_dataset"
      [] pc = "dataset_loaded" -> "training_arguments"
      [] pc = "args_built" -> "init_trainer"
      [] pc = "trainer_built" -> "train"
      [] pc = "trained" -> "save_adapter"
      [] pc = "weights_saved" -> "save_tokenizer"
      [] OTHER -> "none"

\* a call that returns: main() moves on and the call is on record
Call(from, to) ==
    /\ t_pc = from
    /\ t_pc' = to
    /\ t_log' = Append(t_log, NextCall(from))

\* tokenizer = AutoTokenizer.from_pretrained(args.base_model, ...)
LoadTokenizer ==
    /\ Call("start", "tokenizer_loaded")
    /\ UNCHANGED <<t_dataset, t_epochs, t_batch, t_step, t_outdir>>
    /\ UNCHANGED <<collector_vars, sample_vars, exporter_vars>>

\* bnb_config = BitsAndBytesConfig(load_in_4bit=True, ...)
ConfigureQuantization ==
    /\ Call("tokenizer_loaded", "bnb_configured")
    /\ UNCHANGED <<t_dataset, t_epochs, t_batch, t_step, t_outdir>>
    /\ UNCHANGED <<collector_vars, sample_vars, exporter_vars>>

\* model = AutoModelForCausalLM.from_pretrained(args.base_model, quantization_config=...)
LoadModel ==
    /\ Call("bnb_configured", "model_loaded")
    /\ UNCHANGED <<t_dataset, t_epochs, t_batch, t_step, t_outdir>>
    /\ UNCHANGED <<collector_vars, sample_vars, exporter_vars>>

\* model = prepare_model_for_kbit_training(model)
PrepareKbit ==
    /\ Call("model_loaded", "kbit_prepared")
    /\ UNCHANGED <<t_dataset, t_epochs, t_batch, t_step, t_outdir>>
    /\ UNCHANGED <<collector_vars, sample_vars, exporter_vars>>

\* peft_config = LoraConfig(...); model = get_peft_model(model, peft_config)
AttachAdapter ==
    /\ Call("kbit_prepared", "adapter_attached")
    /\ UNCHANGED <<t_dataset, t_epochs, t_batch, t_step, t_outdir>>
    /\ UNCHANGED <<collector_vars, sample_vars, exporter_vars>>

\* a slip: the report is left out and the run goes on to the dataset
PrintTrainableParametersSkipped ==
    /\ t_pc = "adapter_attached"
    /\ t_pc' = "params_printed"
    /\ UNCHANGED <<t_dataset, t_epochs, t_batch, t_step, t_outdir, t_log>>
    /\ UNCHANGED <<collector_vars, sample_vars, exporter_vars>>

\* model.print_trainable_parameters()
PrintTrainableParameters ==
    /\ Call("adapter_attached", "params_printed")
    /\ UNCHANGED <<t_dataset, t_epochs, t_batch, t_step, t_outdir>>
    /\ UNCHANGED <<collector_vars, sample_vars, exporter_vars>>

\* a slip: the dataset is loaded right after the weights, before the adapter exists
LoadDatasetBeforeAdapter ==
    /\ t_pc = "model_loaded"
    /\ t_pc' = "dataset_loaded"
    /\ t_log' = Append(t_log, "load_dataset")
    /\ UNCHANGED <<t_dataset, t_epochs, t_batch, t_step, t_outdir>>
    /\ UNCHANGED <<collector_vars, sample_vars, exporter_vars>>

\* dataset = load_dataset("json", data_files=args.dataset, split="train")
LoadDataset ==
    /\ Call("params_printed", "dataset_loaded")
    /\ UNCHANGED <<t_dataset, t_epochs, t_batch, t_step, t_outdir>>
    /\ UNCHANGED <<collector_vars, sample_vars, exporter_vars>>

\* training_args = TrainingArguments(output_dir=args.output_dir, ...)
BuildTrainingArguments ==
    /\ Call("dataset_loaded", "args_built")
    /\ UNCHANGED <<t_dataset, t_epochs, t_batch, t_step, t_outdir>>
    /\ UNCHANGED <<collector_vars, sample_vars, exporter_vars>>

\* trainer = SFTTrainer(model=model, train_dataset=dataset, ...)
InitTrainer ==
    /\ Call("args_built", "trainer_built")
    /\ UNCHANGED <<t_dataset, t_epochs, t_batch, t_step, t_outdir>>
    /\ UNCHANGED <<collector_vars, sample_vars, exporter_vars>>

Max(a, b) == IF a >= b THEN a ELSE b

\* optimizer steps of one epoch: the micro batches over the accumulation factor
StepsPerEpoch(n, batch) == Max(((n + batch - 1) \div batch) \div GradAccum, 1)

\* max_steps=-1: the loop is bounded by num_train_epochs
TotalSteps(n, batch, epochs) == epochs * StepsPerEpoch(n, batch)

\* trainer.train() is entered; it raises at once unless the batch size is positive
StartTraining ==
    /\ Call("trainer_built", "training")
    /\ t_batch >= 1
    /\ t_step' = 0
    /\ UNCHANGED <<t_dataset, t_epochs, t_batch, t_outdir>>
    /\ UNCHANGED <<collector_vars, sample_vars, exporter_vars>>

\* what output_dir holds after optimizer step number step
AfterStep(outdir, step) ==
    IF step % SaveSteps = 0 THEN outdir \cup {"checkpoint"} ELSE outdir

\* a slip: the loop starts over after its last step instead of ending
TrainStepStartsOver ==
    /\ t_pc = "training"
    /\ t_step' = (IF t_step + 1 >= TotalSteps(t_dataset, t_batch, t_epochs) THEN 0 ELSE t_step + 1)
    /\ t_outdir' = AfterStep(t_outdir, t_step + 1)
    /\ UNCHANGED <<t_pc, t_dataset, t_epochs, t_batch, t_log>>
    /\ UNCHANGED <<collector_vars, sample_vars, exporter_vars>>

\* one optimizer step inside trainer.train(), with a checkpoint every save_steps
TrainStep ==
    /\ t_pc = "training"
    /\ t_step < TotalSteps(t_dataset, t_batch, t_epochs)
    /\ t_step' = t_step + 1
    /\ t_outdir' = AfterStep(t_outdir, t_step + 1)
    /\ UNCHANGED <<t_pc, t_dataset, t_epochs, t_batch, t_log>>
    /\ UNCHANGED <<collector_vars, sample_vars, exporter_vars>>

\* trainer.train() returns after the last epoch (at once when there is no epoch to run)
FinishTraining ==
    /\ t_pc = "training"
    /\ t_step >= TotalSteps(t_dataset, t_batch, t_epochs)
    /\ t_pc' = "trained"
    /\ UNCHANGED <<t_dataset, t_epochs, t_batch, t_step, t_log, t_outdir>>
    /\ UNCHANGED <<collector_vars, sample_vars, exporter_vars>>

\* trainer.model.save_pretrained(args.output_dir)
SaveAdapter ==
    /\ Call("trained", "weights_saved")
    /\ t_outdir' = t_outdir \cup {"adapter_weights"}
    /\ UNCHANGED <<t_dataset, t_epochs, t_batch, t_step>>
    /\ UNCHANGED <<collector_vars, sample_vars, exporter_vars>>

\* tokenizer.save_pretrained(args.output_dir)
SaveTokenizer ==
    /\ Call("weights_saved", "done")
    /\ t_outdir' = t_outdir \cup {"tokenizer"}
    /\ UNCHANGED <<t_dataset, t_epochs, t_batch, t_step>>
    /\ UNCHANGED <<collector_vars, sample_vars, exporter_vars>>

\* the call main() is in raises: the exception leaves main(), nothing is cleaned up
TrainerFails ==
    /\ t_pc \notin {"idle", "done", "failed"}
    /\ t_pc' = "failed"
    /\ t_log' = IF t_pc = "training" THEN t_log ELSE Append(t_log, NextCall(t_pc))
    /\ UNCHANGED <<t_dataset, t_epochs, t_batch, t_step, t_outdir>>
    /\ UNCHANGED <<collector_vars, sample_vars, exporter_vars>>

TrainerNext ==
    \/ LoadTokenizer
    \/ ConfigureQuantization
    \/ LoadModel
    \/ PrepareKbit
    \/ AttachAdapter
    \/ PrintTrainableParameters
    \/ LoadDataset
    \/ BuildTrainingArguments
    \/ InitTrainer
    \/ StartTraining
    \/ TrainStep
    \/ FinishTraining
    \/ SaveAdapter
    \/ SaveTokenizer
    \/ TrainerFails

\* the stage of the trainer's state machine main() is in
Stage(pc) ==
    CASE pc \in {"start", "tokenizer_loaded", "bnb_configured"} -> "CONFIGURED"
      [] pc = "model_loaded" -> "WEIGHTS_LOADED"
      [] pc = "kbit_prepared" -> "QUANTIZED"
      [] pc \in {"adapter_attached", "params_printed"} -> "ADAPTER_ATTACHED"
      [] pc \in {"dataset_loaded", "args_built", "trainer_built"} -> "DATASET_LOADED"
      [] pc \in {"training", "trained", "weights_saved"} -> "TRAINING"
      [] pc = "done" -> "SAVED"
      [] pc = "failed" -> "FAILED"
      [] OTHER -> "NONE"

----------------------------------------------------------------------------
(* The exporter: main() of gguf.py, over a small file system.  A path is    *)
(* the sequence of its components.                                          *)

Absent == "<absent>"
MockData == "GGUF_MOCK_DATA"
DefaultBaseModel == "microsoft/Phi-3-mini-4k-instruct"
BaseModels == {DefaultBaseModel, "other/base-model"}

AdapterDir == <<"adapter">>
AdapterConfig == <<"adapter", "adapter_config.json">>     \* holds the base model's name
AdapterWeights == <<"adapter", "adapter_model.safetensors">>
AdapterFiles == {AdapterConfig, AdapterWeights}

OutputPaths == {<<"model.gguf">>, <<"out", "model.gguf">>, <<"out", "sub", "model.gguf">>,
                <<"adapter", "model.gguf">>, AdapterWeights}
FilePaths == OutputPaths \cup AdapterFiles

\* os.path.dirname
Dirname(path) == SubSeq(path, 1, Len(path) - 1)

\* a slip: os.mkdir, which makes the last directory only
OnlyLeaf(d) == {d}

\* the directories os.makedirs(d, exist_ok=True) makes sure of: d and its ancestors
Ancestors(d) == {SubSeq(d, 1, k) : k \in 1..Len(d)}

ExporterIdle ==
    /\ e_pc = "idle" /\ e_adapter = AdapterDir /\ e_base_model = DefaultBaseModel
    /\ e_output = <<"model.gguf">> /\ fs_dirs = {} /\ fs_files = [p \in FilePaths |-> Absent]
    /\ fs_dirs0 = {} /\ fs_files0 = [p \in FilePaths |-> Absent] /\ e_stdout = <<>>
    /\ e_runs = 0 /\ fs_first = <<{}, [p \in FilePaths |-> Absent]>>

\* the file systems an export may start from: the adapter directory is there, whole,
\* or not there at all; the output directories are there or not; the output path may
\* hold an earlier artifact
StartDirs == {{}, {<<"out">>}, {<<"out">>, <<"out", "sub">>}}

StartFiles(dirs, out, adapter_base, old) ==
    [p \in FilePaths |->
        IF p \in AdapterFiles
        THEN (IF AdapterDir \in dirs
              THEN (IF p = AdapterConfig THEN adapter_base ELSE "lora weights")
              ELSE Absent)
        ELSE IF p = out /\ old /\ (Dirname(p) = <<>> \/ Dirname(p) \in dirs) THEN "old artifact"
        ELSE Absent]

\* a slip: os.makedirs(out_dir) without exist_ok, which raises when out_dir is there
MakeDirsNotExistOk ==
    /\ e_pc = "start"
    /\ Dirname(e_output) \notin fs_dirs
    /\ fs_dirs' = IF Dirname(e_output) # <<>> THEN fs_dirs \cup Ancestors(Dirname(e_output))
                  ELSE fs_dirs
    /\ e_pc' = "dirs_made"
    /\ UNCHANGED <<e_adapter, e_base_model, e_output, fs_files, fs_dirs0, fs_files0, e_stdout>>
    /\ UNCHANGED <<collector_vars, sample_vars, trainer_vars, e_runs, fs_first>>

\* out_dir = os.path.dirname(args.output); if out_dir: os.makedirs(out_dir, exist_ok=True)
MakeDirs ==
    /\ e_pc = "start"
    /\ fs_dirs' = IF Dirname(e_output) # <<>> THEN fs_dirs \cup Ancestors(Dirname(e_output))
                  ELSE fs_dirs
    /\ e_pc' = "dirs_made"
    /\ UNCHANGED <<e_adapter, e_base_model, e_output, fs_files, fs_dirs0, fs_files0, e_stdout>>
    /\ UNCHANGED <<collector_vars, sample_vars, trainer_vars, e_runs, fs_first>>

\* os.makedirs raises (no permission): main() ends
MakeDirsFails ==
    /\ e_pc = "start"
    /\ Dirname(e_output) # <<>>
    /\ e_pc' = "failed_makedirs"
    /\ UNCHANGED <<e_adapter, e_base_model, e_output, fs_dirs, fs_files, fs_dirs0, fs_files0, e_stdout>>
    /\ UNCHANGED <<collector_vars, sample_vars, trainer_vars, e_runs, fs_first>>

\* the file open(path, "w") leaves at path: created empty, or truncated
Truncated(files, path) == [files EXCEPT ![path] = ""]

\* with open(args.output, "w") as f:
OpenArtifact ==
    /\ e_pc = "dirs_made"
    /\ fs_files' = Truncated(fs_files, e_output)
    /\ e_pc' = "opened"
    /\ UNCHANGED <<e_adapter, e_base_model, e_output, fs_dirs, fs_dirs0, fs_files0, e_stdout>>
    /\ UNCHANGED <<collector_vars, sample_vars, trainer_vars, e_runs, fs_first>>

\* open() raises (the path is not writable): main() ends, the path is as it was
OpenArtifactFails ==
    /\ e_pc = "dirs_made"
    /\ e_pc' = "failed_open"
    /\ UNCHANGED <<e_adapter, e_base_model, e_output, fs_dirs, fs_files, fs_dirs0, fs_files0, e_stdout>>
    /\ UNCHANGED <<collector_vars, sample_vars, trainer_vars, e_runs, fs_first>>

\* f.write("GGUF_MOCK_DATA") and the close that ends the with block
WriteArtifact ==
    /\ e_pc = "opened"
    /\ fs_files' = [fs_files EXCEPT ![e_output] = MockData]
    /\ e_pc' = "written"
    /\ UNCHANGED <<e_adapter, e_base_model, e_output, fs_dirs, fs_dirs0, fs_files0, e_stdout>>
    /\ UNCHANGED <<collector_vars, sample_vars, trainer_vars, e_runs, fs_first>>

\* the write or the flush on close raises (the disk is full): main() ends, and the
\* file open() made stays as it is
WriteArtifactFails ==
    /\ e_pc = "opened"
    /\ e_pc' = "failed_write"
    /\ UNCHANGED <<e_adapter, e_base_model, e_output, fs_dirs, fs_files, fs_dirs0, fs_files0, e_stdout>>
    /\ UNCHANGED <<collector_vars, sample_vars, trainer_vars, e_runs, fs_first>>

\* the Modelfile text the exporter prints: FROM the artifact, and the turn delimiters
Modelfile(path) == [from |-> path, template |-> <<"<|user|>", "{{ .Prompt }}", "<|end|>", "<|assistant|>">>]

\* print(... Modelfile ...) on the standard stream
PrintModelfile ==
    /\ e_pc = "written"
    /\ e_stdout' = Append(e_stdout, Modelfile(e_output))
    /\ e_pc' = "done"
    /\ UNCHANGED <<e_adapter, e_base_model, e_output, fs_dirs, fs_files, fs_dirs0, fs_files0>>
    /\ UNCHANGED <<collector_vars, sample_vars, trainer_vars, e_runs, fs_first>>

\* the operator runs the exporter again with the same arguments, after a run that
\* succeeded
ExporterRerun ==
    /\ e_pc = "done"
    /\ e_runs < MaxRuns
    /\ e_runs' = e_runs + 1
    /\ fs_first' = IF e_runs = 1 THEN <<fs_dirs, fs_files>> ELSE fs_first
    /\ e_pc' = "start"
    /\ UNCHANGED <<e_adapter, e_base_model, e_output, fs_dirs, fs_files, fs_dirs0, fs_files0, e_stdout>>
    /\ UNCHANGED <<collector_vars, sample_vars, trainer_vars>>

ExporterNext ==
    \/ ExporterRerun
    \/ MakeDirs
    \/ MakeDirsFails
    \/ OpenArtifact
    \/ OpenArtifactFails
    \/ WriteArtifact
    \/ WriteArtifactFails
    \/ PrintModelfile

----------------------------------------------------------------------------
(* Specifications: one per program *)

CollectorInit ==
    /\ c_pc = "start"
    /\ samples \in 0..MaxSamples
    /\ seed_prompts = <<>>
    /\ idx = 0
    /\ results = <<>>
    /\ calls = <<>>
    /\ svc \in ServiceProfiles
    /\ outfile \in {NoFile, OldFile}
    /\ outfile0 = outfile
    /\ widx = 0
    /\ inflight = <<>>
    /\ c_opens = 0
    /\ SampleIdle /\ TrainerIdle /\ ExporterIdle

SpecCollector == CollectorInit /\ [][CollectorNext]_vars

SampleInit ==
    /\ gs_pc = "call"
    /\ gs_prompt \in SamplePrompts
    /\ gs_outcome \in SampleOutcomes
    /\ gs_ret = None
    /\ CollectorIdle /\ TrainerIdle /\ ExporterIdle

SpecSample == SampleInit /\ [][SampleNext]_vars

DatasetSizes == {0, 1, LargeDataset}

TrainerInit ==
    /\ t_pc = "start"
    /\ t_dataset \in DatasetSizes
    /\ t_epochs \in -1..MaxEpochs         \* type=int: zero and negatives are accepted
    /\ t_batch \in 0..MaxBatch
    /\ t_step = 0
    /\ t_log = <<>>
    /\ t_outdir = {}
    /\ CollectorIdle /\ SampleIdle /\ ExporterIdle

SpecTrainer == TrainerInit /\ [][TrainerNext]_vars

\* main() is one sequential process that keeps running: it does not stop between two
\* statements, and every library call returns or raises
SpecTrainerFair == SpecTrainer /\ WF_vars(TrainerNext)

ExporterInit ==
    /\ e_pc = "start"
    /\ e_adapter = AdapterDir
    /\ e_base_model \in BaseModels
    /\ e_output \in OutputPaths
    /\ \E out \in StartDirs, adapter \in SUBSET {AdapterDir} : fs_dirs = out \cup adapter
    /\ \E adapter_base \in BaseModels, old \in BOOLEAN :
          fs_files = StartFiles(fs_dirs, e_output, adapter_base, old)
    /\ fs_dirs0 = fs_dirs
    /\ fs_files0 = fs_files
    /\ e_stdout = <<>>
    /\ e_runs = 1
    /\ fs_first = <<{}, [p \in FilePaths |-> Absent]>>
    /\ CollectorIdle /\ SampleIdle /\ TrainerIdle

SpecExporter == ExporterInit /\ [][ExporterNext]_vars

----------------------------------------------------------------------------
(* Properties of the collector *)

\* what the claims call a failed call: no answer, a status outside 2xx, or a body
\* that is not a JSON object
FailedCall(o) ==
    \/ o.kind # "response"
    \/ ~(200 <= o.status /\ o.status < 300)
    \/ o.body # "object"

Instructions(rs) == [i \in 1..Len(rs) |-> rs[i].instruction]
PromptsOf(cs) == [i \in 1..Len(cs) |-> cs[i].prompt]
NotFailed(c) == ~FailedCall(c.outcome)
Scored(c) == generate_sample(c.prompt, c.outcome) # None

\* C1: a prompt whose call timed out, failed in transport, came back with a status
\* outside 2xx or with a malformed body has no record in results, and the loop still
\* goes through every prompt: once the loop is over, every prompt has been attempted.
C1_FailedCallDropsPromptRunContinues ==
    /\ Instructions(results) = PromptsOf(SelectSeq(calls, NotFailed))
    /\ (c_pc \in {"writing", "done", "crashed"} => Len(calls) = Len(seed_prompts))

\* C2: results holds exactly one record per call that was scored, in the order of the
\* calls, which is the order of the prompts; so it is never longer than the prompt list
\* and its instructions are a subsequence of the prompts. Nothing is deduplicated.
C2_OneRecordPerScoredPromptInOrder ==
    LET scored == SelectSeq(calls, Scored)
    IN /\ Len(results) = Len(scored)
       /\ \A j \in 1..Len(results) :
             results[j] = generate_sample(scored[j].prompt, scored[j].outcome)[1]
       /\ Len(calls) = idx
       /\ idx <= Len(seed_prompts)
       /\ \A i \in 1..Len(calls) : calls[i].prompt = seed_prompts[i]
       /\ Len(results) <= Len(seed_prompts)

\* a finished run in which one prompt was dropped and a prompt that occurs twice in the
\* list gave two equal records
C2_Witness ==
    /\ c_pc = "done"
    /\ Len(results) < Len(seed_prompts)
    /\ \E i, j \in 1..Len(results) : i < j /\ results[i] = results[j]

IsFiniteNumber(v) == v.t = "num"

\* C9: every line of the written dataset file is an example whose instruction is not
\* the empty string and whose complexity_score is a finite number.
C9_PersistedExamplesAreValid ==
    c_pc \in {"writing", "done"} =>
        \A i \in 1..Len(outfile.lines) :
            LET ex == Loads(outfile.lines[i])
            IN /\ ex["instruction"] # JStr(EmptyStr)
               /\ IsFiniteNumber(ex["complexity_score"])

----------------------------------------------------------------------------
(* Properties of generate_sample *)

IsSuccessResponse(o) ==
    /\ o.kind = "response"
    /\ 200 <= o.status /\ o.status < 300
    /\ o.body = "object"

\* C10: a 2xx answer that is a JSON object always gives a record; a field the answer
\* lacks takes its default (0.0, "local", "Unknown"), a field it has is copied as it
\* is, each of the three on its own.
C10_MissingFieldsTakeDefaults ==
    (gs_pc = "returned" /\ IsSuccessResponse(gs_outcome)) =>
        /\ gs_ret # None
        /\ LET r == gs_ret[1]
               d == gs_outcome.data
               target == Loads(r.target)
           IN /\ r.instruction = gs_prompt
              /\ r.complexity_score = (IF "complexityScore" \in DOMAIN d
                                       THEN d["complexityScore"] ELSE JNum(0))
              /\ r.tier = (IF "routingTier" \in DOMAIN d
                           THEN d["routingTier"] ELSE JStr(Str("local")))
              /\ target["reasoning"] = (IF "reasoning" \in DOMAIN d
                                        THEN d["reasoning"] ELSE JStr(Str("Unknown")))

\* an answer with a null score and no tier and no reasoning: the score is kept as it is
\* and the other two take their defaults
C10_Witness ==
    /\ gs_pc = "returned"
    /\ gs_outcome = Response(200, "object", [k \in {"complexityScore"} |-> JNull])
    /\ gs_ret # None
    /\ gs_ret[1].complexity_score = JNull
    /\ gs_ret[1].tier = JStr(Str("local"))

----------------------------------------------------------------------------
(* Properties of the trainer *)

\* C3: with an empty dataset the run fails before anything is loaded: no tokenizer and
\* no model load is ever on record, and main() is nowhere but at its start or failed.
C3_EmptyDatasetFailsBeforeLoading ==
    t_dataset = 0 =>
        /\ \A i \in 1..Len(t_log) : t_log[i] \notin {"load_tokenizer", "load_model"}
        /\ t_pc \in {"idle", "start", "failed"}

\* C6: a failed run leaves nothing in the output directory; adapter weights and
\* tokenizer state are there only together, and only once training is complete.
C6_NoPartialAdapterOnFailure ==
    /\ (t_pc = "failed" => t_outdir = {})
    /\ ("adapter_weights" \in t_outdir <=> "tokenizer" \in t_outdir)
    /\ ("adapter_weights" \in t_outdir => t_pc = "done")

NextStage(st) ==
    CASE st = "CONFIGURED" -> "WEIGHTS_LOADED"
      [] st = "WEIGHTS_LOADED" -> "QUANTIZED"
      [] st = "QUANTIZED" -> "ADAPTER_ATTACHED"
      [] st = "ADAPTER_ATTACHED" -> "DATASET_LOADED"
      [] st = "DATASET_LOADED" -> "TRAINING"
      [] st = "TRAINING" -> "SAVED"
      [] OTHER -> "NONE"

StageStep ==
    LET st == Stage(t_pc)
        st2 == Stage(t_pc')
    IN /\ (st2 # st => (st2 = NextStage(st) \/ (st2 = "FAILED" /\ st # "SAVED")))
       /\ (st = "FAILED" => (st2 = "FAILED" /\ t_log' = t_log /\ t_outdir' = t_outdir))

\* C7: the trainer only ever moves from a stage to the next one in the order
\* CONFIGURED, WEIGHTS_LOADED, QUANTIZED, ADAPTER_ATTACHED, DATASET_LOADED, TRAINING,
\* SAVED, or to failure; after a failure no further call is made.
C7_StagesInOrder == [][StageStep]_vars

\* a run that went through every stage and saved, and made every call on the way
C7_Witness ==
    /\ t_pc = "done"
    /\ t_log = <<"load_tokenizer", "bnb_config", "load_model", "prepare_kbit", "attach_adapter",
                 "print_trainable_parameters", "load_dataset", "training_arguments",
                 "init_trainer", "train", "save_adapter", "save_tokenizer">>

----------------------------------------------------------------------------
(* Properties of the exporter *)

\* C4: when the base model recorded in the adapter differs from --base_model, the
\* export does not succeed and the output path is left as it was.
C4_BaseModelMismatchWritesNothing ==
    (AdapterDir \in fs_dirs0 /\ fs_files0[AdapterConfig] # e_base_model) =>
        /\ fs_files[e_output] = fs_files0[e_output]
        /\ e_pc # "done"

\* C5: an export that failed once writing had begun leaves no file at the output path,
\* a successful one leaves the artifact there, and no stopped export leaves an empty
\* file.
C5_ExportIsAtomic ==
    /\ (e_pc = "failed_write" => fs_files[e_output] = Absent)
    /\ (e_pc = "done" => fs_files[e_output] = MockData)
    /\ (e_pc \in {"done", "failed_makedirs", "failed_open", "failed_write"}
            => fs_files[e_output] # "")

\* C8: when the adapter directory does not exist the export fails and neither creates a
\* directory nor touches a file.
C8_MissingAdapterWritesNothing ==
    AdapterDir \notin fs_dirs0 =>
        /\ fs_dirs = fs_dirs0
        /\ fs_files = fs_files0
        /\ e_pc # "done"

----------------------------------------------------------------------------
(* Properties of the collector, continued *)

\* C11: a run with --samples N attempts exactly N prompts: once the loop is over the
\* service has received N requests, and N records are held when every call was scored.
C11_AttemptsExactlySamplesPrompts ==
    c_pc \in {"writing", "done"} =>
        /\ Len(calls) = samples
        /\ ((\A i \in 1..Len(calls) : Scored(calls[i])) => Len(results) = samples)

----------------------------------------------------------------------------
(* Properties of the trainer, continued *)

TrainerStopped == t_pc \in {"done", "failed"}

\* C12: with a non-empty dataset every run of the trainer ends, saved or failed,
\* whatever --epochs and --batch_size are, and the loop never does more optimizer steps
\* than the epochs allow.
C12_TrainerTerminates ==
    /\ (t_dataset > 0 => <>TrainerStopped)
    /\ [](t_step <= Max(TotalSteps(t_dataset, Max(t_batch, 1), t_epochs), 0))

\* a run over the large dataset that trained past its first checkpoint and saved
C12_Witness ==
    /\ t_pc = "done"
    /\ t_dataset > 1
    /\ t_step > SaveSteps
    /\ "checkpoint" \in t_outdir

----------------------------------------------------------------------------
(* Properties of the exporter, continued *)

\* C13: a successful export leaves the artifact at exactly the requested path and no
\* other file changed; every directory above the path exists afterwards, and no other
\* directory was made. This holds as well for a path without a directory part.
C13_OneArtifactAtRequestedPath ==
    e_pc = "done" =>
        /\ fs_files[e_output] = MockData
        /\ \A p \in FilePaths \ {e_output} : fs_files[p] = fs_files0[p]
        /\ \A k \in 1..(Len(e_output) - 1) : SubSeq(e_output, 1, k) \in fs_dirs
        /\ \A d \in fs_dirs \ fs_dirs0 :
              \E k \in 1..(Len(e_output) - 1) : d = SubSeq(e_output, 1, k)

\* an export to out/sub/model.gguf that started with neither out nor out/sub
C13_Witness ==
    /\ e_pc = "done"
    /\ e_output = <<"out", "sub", "model.gguf">>
    /\ <<"out">> \notin fs_dirs0
    /\ {<<"out">>, <<"out", "sub">>} \subseteq fs_dirs

InAdapterDir(p) == Len(p) > Len(AdapterDir) /\ SubSeq(p, 1, Len(AdapterDir)) = AdapterDir

\* C16: an export never creates, changes or deletes a file of the adapter directory,
\* wherever --output points.
C16_AdapterIsReadOnly ==
    \A p \in FilePaths : InAdapterDir(p) => fs_files[p] = fs_files0[p]

\* C19: a second run with the same arguments leaves the file system as the first run
\* left it; it is not stopped by the directory or the artifact that is already there.
C19_RerunIsIdempotent ==
    /\ ((e_runs >= 2 /\ e_pc = "done") => <<fs_dirs, fs_files>> = fs_first)
    /\ (e_pc = "start" => ENABLED MakeDirs)
    /\ (e_pc = "dirs_made" => ENABLED OpenArtifact)
    /\ (e_pc = "opened" => ENABLED WriteArtifact)

\* a second run that finished, over the directory and the artifact of the first
C19_Witness ==
    /\ e_runs = 2
    /\ e_pc = "done"
    /\ e_output = <<"out", "model.gguf">>
    /\ <<"out">> \notin fs_dirs0
    /\ fs_first[2][e_output] = MockData

----------------------------------------------------------------------------
(* Properties of the trainer, continued *)

\* the position of the first call of that name in the trainer's log, 0 when there is none
Pos(log, name) ==
    IF \E i \in 1..Len(log) : log[i] = name
    THEN CHOOSE i \in 1..Len(log) : log[i] = name /\ \A j \in 1..(i - 1) : log[j] # name
    ELSE 0

\* C17: once the training loop has been entered, the trainable-parameter report is in
\* the log, after the adapter was attached and before the loop was started; no run is
\* in or past training without it.
C17_ParametersReportedBeforeTraining ==
    (t_pc \in {"training", "trained", "weights_saved", "done"} \/ t_step > 0
        \/ Pos(t_log, "train") > 0) =>
        /\ Pos(t_log, "attach_adapter") > 0
        /\ Pos(t_log, "print_trainable_parameters") > Pos(t_log, "attach_adapter")
        /\ Pos(t_log, "train") > Pos(t_log, "print_trainable_parameters")

\* a run in the middle of its training loop
C17_Witness ==
    /\ t_pc = "training"
    /\ t_step > 0
    /\ Pos(t_log, "print_trainable_parameters") > 0

----------------------------------------------------------------------------
(* Properties of generate_sample, continued *)

\* C15: the record as json.dumps writes it reads back with a target that is itself
\* JSON text for an object with the keys score and reasoning and no other; its score is
\* the value the record has as complexity_score and its reasoning is the answer's
\* reasoning, "Unknown" when the answer has none. (A NaN score is the same NaN in both
\* places.) The answer {complexityScore: 0.1, routingTier: "local", reasoning:
\* "trivial greeting"} gives tier "local" and the target {score: 0.1, reasoning:
\* "trivial greeting"}.
C15_TargetMirrorsScoreAndReasoning ==
    (gs_pc = "returned" /\ gs_ret # None) =>
        LET ex == Loads(DumpsRecord(gs_ret[1]))
            target == Loads(ex["target"].s)
            d == gs_outcome.data
        IN /\ ex["target"].t = "str"
           /\ DOMAIN target = {"score", "reasoning"}
           /\ target["score"] = ex["complexity_score"]
           /\ target["reasoning"] = (IF "reasoning" \in DOMAIN d THEN d["reasoning"]
                                     ELSE JStr(Str("Unknown")))
           /\ (d = FullData =>
                 /\ ex["tier"] = JStr(Str("local"))
                 /\ target["score"] = JNum(1)
                 /\ target["reasoning"] = JStr(Str("trivial greeting")))

\* the answer of the example, scored
C15_Witness ==
    /\ gs_pc = "returned"
    /\ gs_outcome = Response(200, "object", FullData)
    /\ gs_ret # None
    /\ Loads(gs_ret[1].target)["score"] = JNum(1)

----------------------------------------------------------------------------
(* Properties of the collector, continued *)

\* C14: the routing service is called once for every prompt position, in order: the
\* i-th call made is the call for the i-th prompt, whether it was scored or failed, and
\* at most one call is outstanding; a call is posted only when all the calls before it
\* have ended. When the loop is over, every position has had its one call.
C14_OneCallPerPromptOneAtATime ==
    /\ Len(inflight) <= 1
    /\ Len(calls) + Len(inflight) <= Len(seed_prompts)
    /\ \A i \in 1..Len(calls) : calls[i].prompt = seed_prompts[i]
    /\ (inflight # <<>> => inflight[1] = seed_prompts[Len(calls) + 1])
    /\ (c_pc \in {"writing", "done", "crashed"} =>
          Len(calls) = Len(seed_prompts) /\ inflight = <<>>)

\* a call is outstanding after a call that failed and a call that was scored
C14_Witness ==
    /\ c_pc = "waiting"
    /\ Len(inflight) = 1
    /\ \E i, j \in 1..Len(calls) : ~Scored(calls[i]) /\ Scored(calls[j])

\* C18: args.output is opened once at most, and only when every prompt has been
\* attempted; until then, also in a run that is killed in its loop, the file is as it
\* was found. After a complete run the file exists and holds one line per record of
\* results, in the order of results; none when nothing was scored.
C18_OutputOpenedOnceAfterLoop ==
    /\ c_opens <= 1
    /\ (c_opens = 1 => Len(calls) = Len(seed_prompts) /\ inflight = <<>>)
    /\ (c_opens = 0 => outfile = outfile0)
    /\ (c_pc \in {"loop", "waiting", "killed"} => outfile = outfile0)
    /\ (c_pc = "done" =>
          /\ c_opens = 1
          /\ outfile.exists
          /\ Len(outfile.lines) = Len(results)
          /\ \A i \in 1..Len(results) : outfile.lines[i] = DumpsRecord(results[i])
          /\ \A i \in 1..Len(results) :
                Loads(outfile.lines[i])["instruction"] = JStr(results[i].instruction))

\* a complete run in which no prompt was scored, over a file that was there
C18_Witness ==
    /\ c_pc = "done"
    /\ Len(seed_prompts) > 0
    /\ results = <<>>
    /\ outfile0 = OldFile
    /\ outfile = [exists |-> TRUE, lines |-> <<>>]

====
